---------------------------- MODULE Spec2Model ----------------------------
(***************************************************************************)
(* Model of multiqc/modules/dragen/mapping_metrics.py: the DRAGEN mapping  *)
(* metrics parser (parse_mapping_metrics_file), the aggregating handler    *)
(* DragenMappingMetics.parse_mapping_metrics, the general-metric promoter  *)
(* (maybe_add_general_metrics) and the two reconciled chart projections.   *)
(*                                                                         *)
(* Conventions.  Python strings are TLA+ strings and are split, sliced and *)
(* concatenated as the code does.  A Python dict whose iteration order the *)
(* code depends on is a sequence of <<key, value>> pairs in insertion      *)
(* order (CPython >= 3.7); a metric record, which the code only reads by   *)
(* key, is a function from metric names to values.  A metric value is a    *)
(* tagged record: an int, a float (kept in hundredths) or a str.           *)
(***************************************************************************)
EXTENDS Integers, Sequences, FiniteSets, TLC

\* Number of input documents find_log_files may hand to one run.
MaxDocs == 2

----------------------------------------------------------------------------
(* Python values *)

IntV(i) == [k |-> "int", n |-> i, s |-> ""]
FloatV(h) == [k |-> "float", n |-> h, s |-> ""]
StrV(t) == [k |-> "str", n |-> 0, s |-> t]
NA == StrV("NA")

IsNum(v) == v.k \in {"int", "float"}
\* the numeric value in hundredths
Hundredths(v) == IF v.k = "int" THEN v.n * 100 ELSE v.n

\* Python ==: numbers compare by value across int and float, a str only
\* equals the same str.
PyEq(a, b) ==
  IF IsNum(a) /\ IsNum(b) THEN Hundredths(a) = Hundredths(b)
  ELSE a.k = b.k /\ a.s = b.s

\* a + b on numbers; int + int stays int.
PyAdd(a, b) ==
  IF a.k = "int" /\ b.k = "int" THEN IntV(a.n + b.n)
  ELSE FloatV(Hundredths(a) + Hundredths(b))

----------------------------------------------------------------------------
(* Python string operations *)

\* the places at or after from where sep occurs in str
Occurrences(str, sep, from) ==
  {i \in from..(Len(str) - Len(sep) + 1) : SubSeq(str, i, i + Len(sep) - 1) = sep}

\* least i >= from with str[i .. i+Len(sep)-1] = sep, or 0
IndexFrom(str, sep, from) ==
  IF Occurrences(str, sep, from) = {} THEN 0
  ELSE CHOOSE i \in Occurrences(str, sep, from) :
         \A j \in Occurrences(str, sep, from) : i <= j

\* greatest i <= from with str[i .. i+Len(sep)-1] = sep, or 0
LastIndex(str, sep, from) ==
  IF {i \in Occurrences(str, sep, 1) : i <= from} = {} THEN 0
  ELSE CHOOSE i \in Occurrences(str, sep, 1) :
         i <= from /\ \A j \in Occurrences(str, sep, 1) : j <= from => j <= i

RECURSIVE Split(_, _)
\* str.split(sep): always at least one field
Split(str, sep) ==
  LET i == IndexFrom(str, sep, 1)
  IN IF i = 0 THEN <<str>>
     ELSE <<SubSeq(str, 1, i - 1)>>
          \o Split(SubSeq(str, i + Len(sep), Len(str)), sep)

LowerChar(c) ==
  CASE c = "A" -> "a" [] c = "B" -> "b" [] c = "C" -> "c" [] c = "D" -> "d"
    [] c = "E" -> "e" [] c = "F" -> "f" [] c = "G" -> "g" [] c = "H" -> "h"
    [] c = "I" -> "i" [] c = "J" -> "j" [] c = "K" -> "k" [] c = "L" -> "l"
    [] c = "M" -> "m" [] c = "N" -> "n" [] c = "O" -> "o" [] c = "P" -> "p"
    [] c = "Q" -> "q" [] c = "R" -> "r" [] c = "S" -> "s" [] c = "T" -> "t"
    [] c = "U" -> "u" [] c = "V" -> "v" [] c = "W" -> "w" [] c = "X" -> "x"
    [] c = "Y" -> "y" [] c = "Z" -> "z" [] OTHER -> c

RECURSIVE Lower(_)
Lower(str) ==
  IF Len(str) = 0 THEN ""
  ELSE LowerChar(SubSeq(str, 1, 1)) \o Lower(SubSeq(str, 2, Len(str)))

IsDigit(c) == c \in {"0", "1", "2", "3", "4", "5", "6", "7", "8", "9"}

DigitVal(c) ==
  CASE c = "0" -> 0 [] c = "1" -> 1 [] c = "2" -> 2 [] c = "3" -> 3
    [] c = "4" -> 4 [] c = "5" -> 5 [] c = "6" -> 6 [] c = "7" -> 7
    [] c = "8" -> 8 [] c = "9" -> 9

AllDigits(str) ==
  /\ Len(str) > 0
  /\ \A i \in 1..Len(str) : IsDigit(SubSeq(str, i, i))

RECURSIVE DigitsVal(_)
DigitsVal(str) ==
  IF Len(str) = 0 THEN 0
  ELSE DigitsVal(SubSeq(str, 1, Len(str) - 1)) * 10
       + DigitVal(SubSeq(str, Len(str), Len(str)))

\* the text without one leading sign
Unsigned(str) ==
  IF Len(str) > 0 /\ SubSeq(str, 1, 1) \in {"-", "+"}
  THEN SubSeq(str, 2, Len(str)) ELSE str

Sign(str) == IF Len(str) > 0 /\ SubSeq(str, 1, 1) = "-" THEN -1 ELSE 1

\* int(str) succeeds: an optional sign and decimal digits.
IsIntText(str) == AllDigits(Unsigned(str))

\* digits around the point at position p of u (p > 0)
PointShape(u, p) ==
  /\ p > 0
  /\ Len(u) > 1
  /\ p = 1 \/ AllDigits(SubSeq(u, 1, p - 1))
  /\ p = Len(u) \/ AllDigits(SubSeq(u, p + 1, Len(u)))

\* float(str) succeeds: an integer text, or digits around one point.  (The
\* exponent, inf and nan spellings do not occur in the modelled inputs.)
IsFloatText(str) ==
  \/ IsIntText(str)
  \/ PointShape(Unsigned(str), IndexFrom(Unsigned(str), ".", 1))

IntOf(str) == Sign(str) * DigitsVal(Unsigned(str))

\* hundredths of the unsigned text u with its point at p; digits after the
\* second decimal are dropped
PointHundredths(u, p) ==
  DigitsVal(SubSeq(u, 1, p - 1)) * 100 + DigitsVal(SubSeq(u \o "00", p + 1, p + 2))

\* float(str) in hundredths
FloatOf(str) ==
  IF IsIntText(str) THEN IntOf(str) * 100
  ELSE Sign(str) * PointHundredths(Unsigned(str), IndexFrom(Unsigned(str), ".", 1))

\* faulty variant of the coercion: an unavailable value becomes zero
CoerceValueZeroingNA(str) ==
  IF IsIntText(str) THEN IntV(IntOf(str))
  ELSE IF IsFloatText(str) THEN FloatV(FloatOf(str))
  ELSE IF str = "NA" THEN IntV(0)
  ELSE StrV(str)

\* value = int(value), else float(value), else the text itself
CoerceValue(str) ==
  IF IsIntText(str) THEN IntV(IntOf(str))
  ELSE IF IsFloatText(str) THEN FloatV(FloatOf(str))
  ELSE StrV(str)

\* percentage = float(percentage), else the text itself
CoercePercentage(str) ==
  IF IsFloatText(str) THEN FloatV(FloatOf(str)) ELSE StrV(str)

----------------------------------------------------------------------------
(* dicts in insertion order: sequences of <<key, value>> *)

Keys(d) == [i \in 1..Len(d) |-> d[i][1]]
KeySet(d) == {d[i][1] : i \in 1..Len(d)}
Has(d, key) == \E i \in 1..Len(d) : d[i][1] = key
Get(d, key) == d[CHOOSE i \in 1..Len(d) : d[i][1] = key][2]
\* d[key] = val: an existing key keeps its place
Put(d, key, val) ==
  IF Has(d, key)
  THEN [i \in 1..Len(d) |-> IF d[i][1] = key THEN <<key, val>> ELSE d[i]]
  ELSE Append(d, <<key, val>>)

(* metric records: functions from metric name to value *)
EmptyRecord == [m \in {} |-> NA]
RecPut(r, m, v) == [x \in DOMAIN r \cup {m} |-> IF x = m THEN v ELSE r[x]]
RecDel(r, m) == [x \in DOMAIN r \ {m} |-> r[x]]

----------------------------------------------------------------------------
(* metric identifiers read by name in the code *)

M_TotalInputReads == "Total input reads"
M_TotalReadsInRG == "Total reads in RG"
M_DupMarked == "Number of duplicate marked reads"
M_DupMateRemoved == "Number of duplicate marked and mate reads removed"
M_UniqueReads == "Number of unique reads (excl. duplicate marked reads)"
M_UniqueMapped == "Number of unique & mapped reads (excl. duplicate marked reads)"
M_MappedReads == "Mapped reads"
M_Unmapped == "Unmapped reads"
M_Singleton == "Singleton reads (itself mapped; mate unmapped)"
M_ProperlyPaired == "Properly paired reads"
M_Discordant == "Not properly paired reads (discordant)"
M_TotalAlignments == "Total alignments"
M_SecondaryAlignments == "Secondary alignments"
M_TotalBases == "Total bases"
M_Q30Excl == "Q30 bases (excl. dups & clipped bases)"
M_MappedBasesR1 == "Mapped bases R1"
M_MappedBasesR2 == "Mapped bases R2"
M_BasesInRef == "Bases in reference genome"
M_BasesInTarget == "Bases in target bed [% of genome]"
M_Ploidy == "Provided sex chromosome ploidy"
M_MappingRate == "DRAGEN mapping rate [mil. reads/second]"

\* config.base_count_prefix under the default base_count_multiplier
base_count_prefix == "Mb"

\* module-level base_format for a multiplier that is neither 1 nor 1e-9
base_format == "{:,.1f}&nbsp;" \o "&nbsp;" \o base_count_prefix

\* (id_in_data, title, format, modify given)
GENERAL_METRICS ==
  << <<M_BasesInRef, "Bases in ref. genome:", base_format, TRUE>>,
     <<M_BasesInTarget, "Bases in target bed:", "{} % of genome", FALSE>>,
     <<M_Ploidy, "Prov. sex chrom ploidy:", "{}", FALSE>>,
     <<M_MappingRate, "DRAGEN mapping rate:", "{:,.2f} [mil. reads/second]", FALSE>> >>

GeneralIds == {GENERAL_METRICS[i][1] : i \in 1..Len(GENERAL_METRICS)}

----------------------------------------------------------------------------
(* parse_mapping_metrics_file *)

Suffix == "mapping_metrics.csv"

\* re.search(r'(.*).mapping_metrics.csv', fn): the greedy group ends one
\* character before the last place the suffix starts; 0 when nothing matches.
SuffixAt(fn) ==
  LET p == LastIndex(fn, Suffix, Len(fn)) IN IF p >= 2 THEN p ELSE 0

SNameOf(fn) == SubSeq(fn, 1, SuffixAt(fn) - 2)

\* defaultdict(dict): d[key][metric] = val
PutMetric(d, key, metric, val) ==
  Put(d, key, RecPut(IF Has(d, key) THEN Get(d, key) ELSE EmptyRecord, metric, val))

\* d[key][metric] = value, and d[key][metric + ' pct'] = percentage when the
\* row has a fifth field
StoreRow(d, key, metric, fields) ==
  IF Len(fields) > 4
  THEN PutMetric(PutMetric(d, key, metric, CoerceValue(fields[4])),
                 key, metric \o " pct", CoercePercentage(fields[5]))
  ELSE PutMetric(d, key, metric, CoerceValue(fields[4]))

\* the row's fields and the two parts of its section; acc = [rg, ph, err]
ParseRow(acc, fields, head) ==
  IF Len(head) < 2 \/ Len(fields) < 4
  THEN [acc EXCEPT !.err = "IndexError"]
  ELSE IF head[2] = "ALIGNING SUMMARY"
  THEN [acc EXCEPT !.ph = StoreRow(@, Lower(Split(head[1], " ")[1]), fields[3], fields)]
  ELSE IF head[2] = "ALIGNING PER RG"
  THEN [acc EXCEPT !.rg = StoreRow(@, fields[2], fields[3], fields)]
  ELSE acc

ParseFields(acc, fields) == ParseRow(acc, fields, Split(fields[1], "/"))

\* one pass of the loop over f['f'].splitlines()
ParseLine(acc, line) == ParseFields(acc, Split(line, ","))

RECURSIVE ParseLines(_, _, _, _)
\* the loop over lines[lo..hi] in order, first half then second half; an
\* exception ends it
ParseLines(acc, lines, lo, hi) ==
  IF lo > hi \/ acc.err # "" THEN acc
  ELSE IF lo = hi THEN ParseLine(acc, lines[lo])
  ELSE ParseLines(ParseLines(acc, lines, lo, (lo + hi) \div 2),
                  lines, (lo + hi) \div 2 + 1, hi)

\* st = [err, data]; reading data[m] raises KeyError when m is missing
NeedKey(st, m) ==
  IF st.err = "" /\ m \notin DOMAIN st.data
  THEN [st EXCEPT !.err = "KeyError: " \o m] ELSE st

\* st after data[m] was read: a str in arithmetic or an ordering raises
NumRead(st, m) ==
  IF st.err = "" /\ ~IsNum(st.data[m])
  THEN [st EXCEPT !.err = "TypeError: " \o m] ELSE st

NeedNum(st, m) == NumRead(NeedKey(st, m), m)

\* st after data[m] was read: if data[m] == 'NA': data[m] = 0
ZeroRead(st, m) ==
  IF st.err = "" /\ PyEq(st.data[m], NA)
  THEN [st EXCEPT !.data = RecPut(@, m, IntV(0))] ELSE st

ZeroIfNA(st, m) == ZeroRead(NeedKey(st, m), m)

\* faulty variant of the unique-reads fixup: zero, like the duplicate counts
CopyReadAsZero(st, m, other) ==
  IF st.err = "" /\ PyEq(st.data[m], NA)
  THEN [st EXCEPT !.data = RecPut(@, m, IntV(0))]
  ELSE st

\* st after data[m] was read: if data[m] == 'NA': data[m] = data[other]
CopyRead(st, m, other) ==
  IF st.err = "" /\ PyEq(st.data[m], NA)
  THEN IF other \in DOMAIN st.data
       THEN [st EXCEPT !.data = RecPut(@, m, @[other])]
       ELSE [st EXCEPT !.err = "KeyError: " \o other]
  ELSE st

CopyIfNA(st, m, other) == CopyRead(NeedKey(st, m), m, other)

\* a / b * 100.0 in hundredths (true division of Python 3, truncated)
PctOf(a, b) == FloatV((Hundredths(a) * 10000) \div Hundredths(b))

PctRead(st, m, total) ==
  IF st.err = ""
  THEN [st EXCEPT !.data = RecPut(@, m \o " pct", PctOf(@[m], @[total]))] ELSE st

\* data[m + ' pct'] = data[m] / data[total] * 100.0
AddPct(st, m, total) == PctRead(NeedNum(st, m), m, total)

Positive(st, m) == st.err = "" /\ Hundredths(st.data[m]) > 0

\* st after data['Total alignments'] was read
AlignmentPct(st) ==
  IF Positive(st, M_TotalAlignments)
  THEN AddPct(st, M_SecondaryAlignments, M_TotalAlignments) ELSE st

\* st after data['Total bases'] was read
BasesPct(st) ==
  IF Positive(st, M_TotalBases)
  THEN AddPct(AddPct(AddPct(st, M_Q30Excl, M_TotalBases),
                     M_MappedBasesR1, M_TotalBases),
              M_MappedBasesR2, M_TotalBases)
  ELSE st

\* the body of the loop "adding some missing values", on one record
Fixup(data) ==
  BasesPct(NeedNum(
    AlignmentPct(NeedNum(
      CopyIfNA(
        ZeroIfNA(ZeroIfNA([err |-> "", data |-> data], M_DupMarked),
                 M_DupMateRemoved),
        M_UniqueReads, M_MappedReads),
      M_TotalAlignments)),
    M_TotalBases))

\* the dict with the record at position i replaced by the fixed one
FixedAt(d, i, r) == [err |-> r.err, d |-> [d EXCEPT ![i] = <<d[i][1], r.data>>]]

RECURSIVE FixupAll(_, _)
\* Fixup over the values of dict st.d from position i on; st = [err, d]
FixupAll(st, i) ==
  IF i > Len(st.d) \/ st.err # "" THEN st
  ELSE FixupAll(FixedAt(st.d, i, Fixup(st.d[i][2])), i + 1)

\* the dicts after the fixups ran over the read groups, then the phenotypes
FixedDicts(rg, phs) == [err |-> phs.err, rg |-> rg, ph |-> phs.d]

FixupPhenotypes(rgs, ph) ==
  FixedDicts(rgs.d, FixupAll([err |-> rgs.err, d |-> ph], 1))

FixupBoth(parsed) ==
  FixupPhenotypes(FixupAll([err |-> parsed.err, d |-> parsed.rg], 1), parsed.ph)

ParseResult(s_name, fixed) ==
  IF fixed.err # ""
  THEN [err |-> fixed.err, s_name |-> s_name, data_by_readgroup |-> <<>>,
        data_by_phenotype |-> <<>>]
  ELSE [err |-> "", s_name |-> s_name, data_by_readgroup |-> fixed.rg,
        data_by_phenotype |-> fixed.ph]

\* f = [fn, f]: the file name and the lines of its text.  The result carries
\* err = "" and the two dicts, or the exception raised.
parse_mapping_metrics_file(f) ==
  IF SuffixAt(f.fn) = 0
  THEN [err |-> "AttributeError", s_name |-> "", data_by_readgroup |-> <<>>,
        data_by_phenotype |-> <<>>]
  ELSE ParseResult(SNameOf(f.fn),
                   FixupBoth(ParseLines([rg |-> <<>>, ph |-> <<>>, err |-> ""], f.f, 1, Len(f.f))))

----------------------------------------------------------------------------
(* input documents: the files find_log_files can hand to the run *)

\* one row SECTION,ENTITY,METRIC,VALUE[,PERCENTAGE] of a document
Row(section, entity, metric, value, pct) ==
  section \o "," \o entity \o "," \o metric \o "," \o value
  \o (IF pct = "" THEN "" ELSE "," \o pct)

\* "TUMOR MAPPING/ALIGNING SUMMARY"; an unqualified section has no first word
Section(word, kind) ==
  (IF word = "" THEN "" ELSE word \o " ") \o "MAPPING/ALIGNING " \o kind

\* the rows every record needs for the post-parse fixups; dup is the text of
\* the duplicate-marking counts ("NA" when deduplication was not performed)
BaseRows(section, entity, dup) ==
  << Row(section, entity, M_DupMarked, dup, IF dup = "NA" THEN "" ELSE "10.00"),
     Row(section, entity, M_DupMateRemoved, "NA", ""),
     Row(section, entity, M_UniqueReads, IF dup = "NA" THEN "NA" ELSE "900", ""),
     Row(section, entity, M_MappedReads, "950", "95.00"),
     Row(section, entity, M_TotalAlignments, "1000", ""),
     Row(section, entity, M_SecondaryAlignments, "10", ""),
     Row(section, entity, M_TotalBases, "2000", ""),
     Row(section, entity, M_Q30Excl, "1500", ""),
     Row(section, entity, M_MappedBasesR1, "900", ""),
     Row(section, entity, M_MappedBasesR2, "800", "") >>

\* an ALIGNING SUMMARY block; general = the texts of the four general
\* metrics in GENERAL_METRICS order, "" for a row the document lacks
SummaryRows(word, total, general) ==
  LET sec == Section(word, "SUMMARY")
      G(i) == IF general[i] = "" THEN <<>>
              ELSE <<Row(sec, "", GENERAL_METRICS[i][1], general[i], "")>>
  IN <<Row(sec, "", M_TotalInputReads, total, "100.00")>>
     \o BaseRows(sec, "", "100")
     \o G(1) \o G(2) \o G(3) \o G(4)

\* an ALIGNING PER RG block; c = <<total, unique & mapped, duplicate marked,
\* unmapped, discordant, properly paired, singleton>> as texts
RGRows(word, rg, c) ==
  LET sec == Section(word, "PER RG")
  IN <<Row(sec, rg, M_TotalReadsInRG, c[1], "100.00"),
       Row(sec, rg, M_UniqueMapped, c[2], ""),
       Row(sec, rg, M_Unmapped, c[4], ""),
       Row(sec, rg, M_Discordant, c[5], ""),
       Row(sec, rg, M_ProperlyPaired, c[6], ""),
       Row(sec, rg, M_Singleton, c[7], "")>>
     \o BaseRows(sec, rg, c[3])

\* an ALIGNING PER RG block without the pairing components
DupRows(word, rg, c) ==
  <<Row(Section(word, "PER RG"), rg, M_TotalReadsInRG, c[1], "100.00"),
    Row(Section(word, "PER RG"), rg, M_UniqueMapped, c[2], ""),
    Row(Section(word, "PER RG"), rg, M_Unmapped, c[4], "")>>
  \o BaseRows(Section(word, "PER RG"), rg, c[3])

\* component profiles of a read group against Total reads in RG = 1000
BothOk == <<"1000", "800", "150", "50", "20", "900", "30">>
DupOnly == <<"1000", "800", "150", "50", "20", "900", "40">>
PairOnly == <<"1000", "800", "100", "50", "20", "900", "30">>
NoneOk == <<"1000", "700", "150", "50", "20", "800", "30">>
NoDedup == <<"1000", "950", "NA", "50", "20", "900", "30">>

\* general-metric profiles
GenStd == <<"3000", "NA", "2", "0.39">>
GenAlt == <<"3000", "NA", "1", "0.39">>
GenPart == <<"3000", "NA", "", "0.39">>

\* the scenario document of the end-to-end property: one summary row and the
\* read-group rows for the total and the three duplication components only
MinimalRows ==
  << Row(Section("TUMOR", "SUMMARY"), "", M_TotalInputReads, "1000", ""),
     Row(Section("TUMOR", "PER RG"), "RG1", M_TotalReadsInRG, "1000", ""),
     Row(Section("TUMOR", "PER RG"), "RG1", M_UniqueMapped, "800", ""),
     Row(Section("TUMOR", "PER RG"), "RG1", M_DupMarked, "150", ""),
     Row(Section("TUMOR", "PER RG"), "RG1", M_Unmapped, "50", "") >>

Contents ==
  << \* 1: tumor-only sample, RG1 reconciles for duplication only
     SummaryRows("TUMOR", "1000", GenStd) \o RGRows("TUMOR", "RG1", DupOnly),
     \* 2: tumor/normal pair, two read groups
     SummaryRows("TUMOR", "1000", GenStd) \o SummaryRows("NORMAL", "500", GenStd)
       \o RGRows("TUMOR", "RG1", BothOk) \o RGRows("NORMAL", "RG2", PairOnly),
     \* 3: unqualified sample with another ploidy
     SummaryRows("", "700", GenAlt) \o RGRows("", "RG2", BothOk),
     \* 4: a read group whose id has the shape of a disambiguated id
     SummaryRows("TUMOR", "800", GenStd) \o RGRows("TUMOR", "RG1", NoneOk)
       \o RGRows("TUMOR", "RG1 (S2)", BothOk),
     \* 5: normal-only sample without the ploidy row, no deduplication
     SummaryRows("NORMAL", "600", GenPart) \o RGRows("NORMAL", "RG3", NoDedup),
     \* 6: the minimal scenario document
     MinimalRows,
     \* 7: the scenario's rows and the fixup metrics, no pairing components
     SummaryRows("TUMOR", "1000", GenStd) \o DupRows("TUMOR", "RG1", DupOnly),
     \* 8: tumor-only sample, RG1 reconciles for both charts
     SummaryRows("TUMOR", "1000", GenStd) \o RGRows("TUMOR", "RG1", BothOk),
     \* 9: a tumor summary and an unqualified summary in one document
     SummaryRows("TUMOR", "1000", GenStd) \o SummaryRows("", "700", GenAlt)
       \o RGRows("TUMOR", "RG1", BothOk) >>

FileNames == <<"S1.mapping_metrics.csv", "S2.mapping_metrics.csv">>

\* every file name with every content
Documents ==
  [i \in 1..(Len(FileNames) * Len(Contents)) |->
     [fn |-> FileNames[((i - 1) % Len(FileNames)) + 1],
      f |-> Contents[((i - 1) \div Len(FileNames)) + 1]]]

\* the parser's result for each document
Parsed == [i \in 1..Len(Documents) |-> parse_mapping_metrics_file(Documents[i])]

\* config.sample_names_ignore: the caller's exclusion sets tried
IgnoreChoices == {{}, {"S1"}, {"RG1"}, {"S1 normal"}}

----------------------------------------------------------------------------
(* BaseMultiqcModule.ignore_samples: a new dict, in the same order, without *)
(* the keys that match config.sample_names_ignore.  The patterns tried hold *)
(* no wildcard, so a key matches when it is one of them.                    *)

RECURSIVE SelectKeys(_, _)
SelectKeys(d, ignored) ==
  IF Len(d) = 0 THEN <<>>
  ELSE (IF d[1][1] \in ignored THEN <<>> ELSE <<d[1]>>)
       \o SelectKeys(Tail(d), ignored)

ignore_samples(d, ignored) == SelectKeys(d, ignored)

----------------------------------------------------------------------------
(* maybe_add_general_metrics *)

\* general_stats_by_sample_by_metric[metric]: the values of the samples that
\* hold the metric, in sample order
ValsBySample(data_by_sample, metric) ==
  LET Collect[i \in 0..Len(data_by_sample)] ==
        IF i = 0 THEN <<>>
        ELSE IF metric \in DOMAIN data_by_sample[i][2]
             THEN Append(Collect[i - 1], data_by_sample[i][2][metric])
             ELSE Collect[i - 1]
  IN Collect[Len(data_by_sample)]

\* len(list(set(vals))) == 1
OneDistinct(vals) ==
  /\ Len(vals) > 0
  /\ \A i \in 1..Len(vals) : PyEq(vals[i], vals[1])

\* modify(v) and fmt.format(v) raise on a str the format cannot take
FormatError(fmt, modify, v) ==
  IF v.k # "str" THEN ""
  ELSE IF modify THEN "TypeError: modify"
  ELSE IF fmt \in {"{}", "{} % of genome"} THEN ""
  ELSE "ValueError: format"

\* {title: fmt.format(modify(v))}: the rendering is str.format's, kept as
\* the format, its argument and whether the multiplier was applied
HeaderFact(title, fmt, modify, v) ==
  [title |-> title, fmt |-> fmt, arg |-> v, modified |-> modify]

RECURSIVE DelMetric(_, _, _)
\* for sname, data in data_by_sample.items(): del data[metric]
\* st = [err, data_by_sample, report_header_info]
DelMetric(st, metric, i) ==
  IF i > Len(st.data_by_sample) THEN st
  ELSE IF metric \notin DOMAIN st.data_by_sample[i][2]
  THEN [st EXCEPT !.err = "KeyError: " \o metric]
  ELSE DelMetric([st EXCEPT !.data_by_sample[i] = <<@[1], RecDel(@[2], metric)>>],
                 metric, i + 1)

\* faulty variant of the pass: an unavailable value is left in the samples
PromoteMetricKeepingNA(st, g) ==
  LET metric == g[1]
      vals == ValsBySample(st.data_by_sample, metric)
      v == vals[1]
      ferr == FormatError(g[3], g[4], v)
  IN IF st.err # "" \/ ~OneDistinct(vals) THEN st
     ELSE IF PyEq(v, NA) THEN st
     ELSE IF ferr # "" THEN [st EXCEPT !.err = ferr]
     ELSE DelMetric([st EXCEPT !.report_header_info =
                                  Append(@, HeaderFact(g[2], g[3], g[4], v))],
                    metric, 1)

\* one pass of the loop over GENERAL_METRICS
PromoteMetric(st, g) ==
  LET metric == g[1]
      vals == ValsBySample(st.data_by_sample, metric)
      v == vals[1]
      ferr == FormatError(g[3], g[4], v)
  IN IF st.err # "" \/ ~OneDistinct(vals) THEN st
     ELSE IF ~PyEq(v, NA) /\ ferr # "" THEN [st EXCEPT !.err = ferr]
     ELSE DelMetric(
            IF PyEq(v, NA) THEN st
            ELSE [st EXCEPT !.report_header_info =
                               Append(@, HeaderFact(g[2], g[3], g[4], v))],
            metric, 1)

RECURSIVE PromoteFrom(_, _)
PromoteFrom(st, j) ==
  IF j > Len(GENERAL_METRICS) THEN st
  ELSE PromoteFrom(PromoteMetric(st, GENERAL_METRICS[j]), j + 1)

\* the per-sample mapping and config.report_header_info when the function
\* returns (err = "") or raises
maybe_add_general_metrics(data_by_sample, header_info) ==
  PromoteFrom([err |-> "", data_by_sample |-> data_by_sample,
               report_header_info |-> header_info], 1)

----------------------------------------------------------------------------
(* the static catalog and make_mapping_stats_headers *)

\* Python's None, where the catalog declares no show mode or no unit
None == "None"

\* config.read_count_prefix, config.read_count_desc and config.base_count_desc
\* under the default multipliers
read_count_prefix == "M"
read_count_desc == "millions"
base_count_desc == "millions"

\* module-level read_format for a multiplier other than 1
read_format == "{:,.1f}" \o "&nbsp;" \o read_count_prefix

\* (id_in_data, title, show, unit, beeswarm, description)
MAPPING_METRICS ==
  << <<"Total input reads", "Reads", "#", "reads", FALSE,
       "Total number of input reads for this sample (or total number of reads in all input read groups combined), {}">>,
     <<"Total reads in RG", "Reads", None, "reads", TRUE,
       "Total number of reads in this RG, {}">>,
     <<"Reads with mate sequenced", "Reads with mate", None, "reads", TRUE,
       "Number of reads with a mate sequenced, {}">>,
     <<"Reads without mate sequenced", "Reads w/o mate", None, "reads", FALSE,
       "Number of reads without a mate sequenced, {}">>,
     <<"QC-failed reads", "QC-fail", None, "reads", TRUE,
       "Number of reads not passing platform/vendor quality checks (SAM flag 0x200), {}">>,
     <<"Mapped reads", "Map", "%", "reads", TRUE,
       "Number of mapped reads, {}">>,
     <<"Mapped reads R1", "Map R1", None, "reads", FALSE,
       "Number of mapped reads R1, {}">>,
     <<"Mapped reads R2", "Map R2", None, "reads", FALSE,
       "Number of mapped reads R2, {}">>,
     <<"Reads with MAPQ [40:inf)", "MQ>=40", None, "reads", TRUE,
       "Number of reads with MAPQ [40:inf), {}">>,
     <<"Number of duplicate marked reads", "Dup", "%", "reads", FALSE,
       "Number of duplicate marked reads as a result of the --enable-duplicatemarking option being used, {}">>,
     <<"Number of duplicate marked and mate reads removed", "Dup with mates removed", None, "reads", FALSE,
       "Number of reads marked as duplicates, along with any mate reads, that are removed when the --remove-duplicates option is used, {}">>,
     <<"Number of unique reads (excl. duplicate marked reads)", "Uniq", None, "reads", TRUE,
       "Number of unique reads (all reads minus duplicate marked reads), {}">>,
     <<"Number of unique & mapped reads (excl. duplicate marked reads)", "Uniq map", None, "reads", TRUE,
       "Number of unique & mapped reads (mapped reads minus duplicate marked reads), {}">>,
     <<"Unmapped reads", "Unmap", None, "reads", FALSE,
       "Number of unmapped reads, {}">>,
     <<"Paired reads (itself & mate mapped)", "Self & mate mapped", None, "reads", TRUE,
       "Number of reads mapped in pairs (itself & mate mapped), {}">>,
     <<"Properly paired reads", "Prop pair", "%", "reads", TRUE,
       "Number of properly paired reads, {} (both reads in pair are mapped and fall within an acceptable range from each other based on the estimated insert length distribution)">>,
     <<"Not properly paired reads (discordant)", "Discord", None, "reads", TRUE,
       "Number of discordant reads: paired reads minus properly paired reads , {}">>,
     <<"Singleton reads (itself mapped; mate unmapped)", "Singleton", None, "reads", TRUE,
       "Number of singleton reads: itself mapped; mate unmapped, {}">>,
     <<"Paired reads mapped to different chromosomes", "Mate map to diff chrom", None, "reads", TRUE,
       "Number of paired reads with a mate mapped to a different chromosome, {}">>,
     <<"Paired reads mapped to different chromosomes (MAPQ>=10)", "Mate diff chrom, MQ>=10", None, "reads", TRUE,
       "Number of paired reads, mapped with MAPQ>=10 and with a mate mapped to a different chromosome, {}">>,
     <<"Reads with indel R1", "Reads with indel R1", None, "reads", FALSE,
       "Number of R1 reads containing at least 1 indel, {}">>,
     <<"Reads with indel R2", "Reads with indel R2", None, "reads", FALSE,
       "Number of R2 reads containing at least 1 indel, {}">>,
     <<"Total alignments", "Alignments", None, "reads", TRUE,
       "Total number of alignments with MQ > 0, {}">>,
     <<"Secondary alignments", "Second'ry", "%", "reads", TRUE,
       "Number of secondary alignments, {}. Secondary alignment occurs when a given read could align reasonably well to more than one place. One of the possible reported alignments is termed \"primary\" and the others will be marked as \"secondary\".">>,
     <<"Supplementary (chimeric) alignments", "Suppl'ry", None, "reads", TRUE,
       "Number of supplementary (chimeric) alignments, {}. A chimeric read is split over multiple loci (possibly due to structural variants). One alignment is referred to as the representative alignment, the other are supplementary">>,
     <<"Estimated read length", "Read len", "#", "len", FALSE,
       "Estimated read length. Total number of input bases divided by the number of reads">>,
     <<"Insert length: mean", "Avg IS", None, "len", FALSE,
       "Insert length: mean">>,
     <<"Insert length: median", "Med IS", "#", "len", FALSE,
       "Insert length: median">>,
     <<"Insert length: standard deviation", "IS std", None, "len", FALSE,
       "Insert length: standard deviation">>,
     <<"Average sequenced coverage over genome", "Cov", "#", "x", TRUE,
       "Average sequenced coverage over genome">>,
     <<"Total bases", "Bases", "#", "bases", TRUE,
       "Total number of bases sequenced, {}">>,
     <<"Total bases R1", "Bases R1", None, "bases", FALSE,
       "Total number of bases sequenced on R1 reads, {}">>,
     <<"Total bases R2", "Bases R2", None, "bases", FALSE,
       "Total number of bases sequenced on R2 reads, {}">>,
     <<"Mapped bases R1", "Mapped bases R1", None, "bases", FALSE,
       "Number of mapped bases on R1 reads, {}">>,
     <<"Mapped bases R2", "Mapped bases R2", None, "bases", FALSE,
       "Number of mapped bases on R2 reads, {}">>,
     <<"Soft-clipped bases R1", "Soft-clip bases R1", None, "bases", FALSE,
       "Number of soft-clipped bases on R1 reads, {}">>,
     <<"Soft-clipped bases R2", "Soft-clip bases R2", None, "bases", FALSE,
       "Number of soft-clipped bases on R2 reads, {}">>,
     <<"Mismatched bases R1", "MM bases R1", None, "bases", FALSE,
       "Number of mismatched bases on R1, {}, which is the sum of SNP count and indel lengths. It does not count anything within soft clipping, or RNA introns. It also does not count a mismatch if either the reference base or read base is N">>,
     <<"Mismatched bases R2", "MM bases R2", None, "bases", FALSE,
       "Number of mismatched bases on R2, {}, which is the sum of SNP count and indel lengths. It does not count anything within soft clipping, or RNA introns. It also does not count a mismatch if either the reference base or read base is N">>,
     <<"Mismatched bases R1 (excl. indels)", "MM bases R1 excl indels", None, "bases", FALSE,
       "Number of mismatched bases on R1, {}. The indels lengts are ignored. It does not count anything within soft clipping, or RNA introns. It also does not count a mismatch if either the reference base or read base is N">>,
     <<"Mismatched bases R2 (excl. indels)", "MM bases R2 excl indels", None, "bases", FALSE,
       "Number of mismatched bases on R2, {}. The indels lengts are ignored. It does not count anything within soft clipping, or RNA introns. It also does not count a mismatch if either the reference base or read base is N">>,
     <<"Q30 bases", "Q30", "%", "bases", TRUE,
       "Number of bases with BQ >= 30, {}">>,
     <<"Q30 bases R1", "Q30 R1", None, "bases", FALSE,
       "Number of bases on R1 reads with BQ >= 30, {}">>,
     <<"Q30 bases R2", "Q30 R2", None, "bases", FALSE,
       "Number of bases on R2 reads with BQ >= 30, {}">>,
     <<"Q30 bases (excl. dups & clipped bases)", "Q30 excl dup & clipped", None, "bases", TRUE,
       "Number of non-clipped bases with BQ >= 30 on non-duplicate reads, {}">>,
     <<"Bases in reference genome", "Bases in ref. genome", "#", "bases", FALSE,
       "Bases in reference genome">>,
     <<"Bases in target bed [% of genome]", "Bases in target bed", "#", "%", FALSE,
       "Bases in target bed [% of genome]">>,
     <<"Provided sex chromosome ploidy", "Provided sex chrom ploidy", None, None, FALSE,
       "Provided sex chromosome ploidy">>,
     <<"DRAGEN mapping rate [mil. reads/second]", "DRAGEN map rate", None, None, FALSE,
       "DRAGEN mapping rate [mil. reads/second]">> >>

\* str with its part from i on, of the length of old, replaced by new, and
\* rest the replacement's result for what follows
ReplacedAt(str, old, new, i, rest) == SubSeq(str, 1, i - 1) \o new \o rest

RECURSIVE Replace(_, _, _)
\* str.replace(old, new): every occurrence, left to right
Replace(str, old, new) ==
  IF IndexFrom(str, old, 1) = 0 THEN str
  ELSE ReplacedAt(str, old, new, IndexFrom(str, old, 1),
                  Replace(SubSeq(str, IndexFrom(str, old, 1) + Len(old), Len(str)),
                          old, new))

\* str.format(arg) of a text with at most one replacement field "{}"
Format(str, arg) ==
  IF IndexFrom(str, "{}", 1) = 0 THEN str
  ELSE ReplacedAt(str, "{}", arg, IndexFrom(str, "{}", 1),
                  SubSeq(str, IndexFrom(str, "{}", 1) + 2, Len(str)))

\* dict(d, **u) and d.update(u): the keys of u set in d
Update(d, u) ==
  [key \in DOMAIN d \cup DOMAIN u |-> IF key \in DOMAIN u THEN u[key] ELSE d[key]]

\* col['scale'] by unit
Scales == [reads |-> "RdYlGn", bases |-> "RdBu", len |-> "BrBG", x |-> "PiYG"]

\* col = dict(title=title, description=descr, min=0) and its scale;
\* e = (id_in_data, title, showing, unit, show_in_beeswarm, descr)
BaseCol(e) ==
  IF e[4] \in DOMAIN Scales
  THEN [title |-> e[2], description |-> e[6], min |-> 0, scale |-> Scales[e[4]]]
  ELSE [title |-> e[2], description |-> e[6], min |-> 0]

\* descr.replace(', {}', '').replace('Number of ', '% of ')
PctDescription(descr) == Replace(Replace(descr, ", {}", ""), "Number of ", "% of ")

\* a percentage column that takes the visibility of the raw column
PctColShownAsRaw(e) ==
  Update(BaseCol(e),
         [description |-> PctDescription(e[6]), max |-> 100, suffix |-> "%",
          hidden |-> e[3] # "#"])

\* pct_col = dict(col, description=..., max=100, suffix='%', hidden=showing != '%')
PctCol(e) ==
  Update(BaseCol(e),
         [description |-> PctDescription(e[6]), max |-> 100, suffix |-> "%",
          hidden |-> e[3] # "%"])

\* what the unit adds to col after col['hidden'] is set; modify is kept as
\* the name of the multiplier it applies
UnitFields(unit, descr) ==
  CASE unit = "reads" ->
         [description |-> Format(descr, read_count_desc),
          modify |-> "config.read_count_multiplier",
          shared_key |-> "read_count", format |-> read_format]
    [] unit = "bases" ->
         [description |-> Format(descr, base_count_desc),
          modify |-> "config.base_count_multiplier",
          shared_key |-> "base_count", format |-> base_format]
    [] unit = "len" -> [suffix |-> " bp", format |-> "{:,.0f}"]
    [] unit = "x" -> [suffix |-> " x", format |-> "{:,.1f}"]
    [] unit = "%" -> [suffix |-> " %", format |-> "{:,.1f}"]
    [] OTHER -> [key \in {} |-> ""]

\* col when it is stored under id_in_data
RawCol(e) ==
  Update(Update(BaseCol(e), [hidden |-> e[3] # "#"]), UnitFields(e[4], e[6]))

\* the suffix of the beeswarm entry
BeeswarmSuffix(unit) ==
  IF unit = "reads" THEN " " \o read_count_prefix
  ELSE IF unit = "bases" THEN " " \o base_count_prefix
  ELSE ""

\* dict(col, suffix=suffix)
BeeswarmCol(e) == Update(RawCol(e), [suffix |-> BeeswarmSuffix(e[4])])

RECURSIVE ColumnsFrom(_, _)
\* the three descriptors of the catalog entries lo..hi: they depend on the
\* entry and on the configuration only
ColumnsFrom(lo, hi) ==
  IF lo = hi
  THEN <<[pct |-> PctCol(MAPPING_METRICS[lo]), raw |-> RawCol(MAPPING_METRICS[lo]),
          beeswarm |-> BeeswarmCol(MAPPING_METRICS[lo])]>>
  ELSE ColumnsFrom(lo, (lo + hi) \div 2) \o ColumnsFrom((lo + hi) \div 2 + 1, hi)

Columns == ColumnsFrom(1, Len(MAPPING_METRICS))

\* acc = [stats_headers, beeswarm_keys]: the two OrderedDicts
WithPct(acc, i, metric_names) ==
  IF (MAPPING_METRICS[i][1] \o " pct") \in metric_names
  THEN [acc EXCEPT !.stats_headers =
                     Put(@, MAPPING_METRICS[i][1] \o " pct", Columns[i].pct)]
  ELSE acc

WithRaw(acc, i) ==
  [acc EXCEPT !.stats_headers = Put(@, MAPPING_METRICS[i][1], Columns[i].raw)]

WithBeeswarm(acc, i) ==
  IF MAPPING_METRICS[i][5]
  THEN [acc EXCEPT !.beeswarm_keys =
                     Put(@, MAPPING_METRICS[i][1], Columns[i].beeswarm)]
  ELSE acc

\* pass i of the loop over MAPPING_METRICS
HeaderPass(acc, i, metric_names) ==
  WithBeeswarm(WithRaw(WithPct(acc, i, metric_names), i), i)

RECURSIVE HeadersFromDescending(_, _, _, _)
\* a loop that takes the second half of MAPPING_METRICS[lo..hi] before the first
HeadersFromDescending(acc, metric_names, lo, hi) ==
  IF lo > hi \/ Len(acc.stats_headers) > 2 * Len(MAPPING_METRICS) THEN acc
  ELSE IF lo = hi THEN HeaderPass(acc, lo, metric_names)
  ELSE HeadersFromDescending(
         HeadersFromDescending(acc, metric_names, (lo + hi) \div 2 + 1, hi),
         metric_names, lo, (lo + hi) \div 2)

RECURSIVE HeadersFrom(_, _, _, _)
\* the loop over MAPPING_METRICS[lo..hi] in order, first half then second
\* half.  No pass leaves more than two columns per catalog entry; the test
\* has the first half evaluated before the second is begun.
HeadersFrom(acc, metric_names, lo, hi) ==
  IF lo > hi \/ Len(acc.stats_headers) > 2 * Len(MAPPING_METRICS) THEN acc
  ELSE IF lo = hi THEN HeaderPass(acc, lo, metric_names)
  ELSE HeadersFrom(HeadersFrom(acc, metric_names, lo, (lo + hi) \div 2),
                   metric_names, (lo + hi) \div 2 + 1, hi)

\* the pair (stats_headers, beeswarm_keys) the function returns
make_mapping_stats_headers(metric_names) ==
  HeadersFrom([stats_headers |-> <<>>, beeswarm_keys |-> <<>>], metric_names,
              1, Len(MAPPING_METRICS))

----------------------------------------------------------------------------
(* the steps of DragenMappingMetics.parse_mapping_metrics *)

\* faulty variant of the naming: the suffix joined with an underscore
NewSampleNameUnderscore(sn, phenotype) ==
  IF phenotype = "normal" THEN sn \o "_normal" ELSE sn

\* flattening: sn, or sn + ' normal' for the normal phenotype
NewSampleName(sn, phenotype) ==
  IF phenotype = "normal" THEN sn \o " normal" ELSE sn

RECURSIVE FlattenOne(_, _, _, _)
\* the inner loop over the phenotypes of document sn
FlattenOne(acc, sn, phs, j) ==
  IF j > Len(phs) THEN acc
  ELSE FlattenOne(Put(acc, NewSampleName(sn, phs[j][1]), phs[j][2]), sn, phs, j + 1)

RECURSIVE FlattenFrom(_, _, _)
FlattenFrom(acc, by_sample, i) ==
  IF i > Len(by_sample) THEN acc
  ELSE FlattenFrom(FlattenOne(acc, by_sample[i][1], by_sample[i][2], 1),
                   by_sample, i + 1)

Flattened(data_by_phenotype_by_sample) ==
  FlattenFrom(<<>>, data_by_phenotype_by_sample, 1)

\* the key a read group is stored under: rg + ' (' + sname + ')' when the
\* merged mapping holds rg already
MergedKey(merged, rg, sname) ==
  IF Has(merged, rg) THEN rg \o " (" \o sname \o ")" ELSE rg

RECURSIVE MergeOne(_, _, _, _)
MergeOne(acc, sname, rgs, j) ==
  IF j > Len(rgs) THEN acc
  ELSE MergeOne(Put(acc, MergedKey(acc, rgs[j][1], sname), rgs[j][2]),
                sname, rgs, j + 1)

RECURSIVE MergeFrom(_, _, _)
MergeFrom(acc, by_sample, i) ==
  IF i > Len(by_sample) THEN acc
  ELSE MergeFrom(MergeOne(acc, by_sample[i][1], by_sample[i][2], 1),
                 by_sample, i + 1)

\* "merging all read group data"
MergedReadGroups(data_by_rg_by_sample) == MergeFrom(<<>>, data_by_rg_by_sample, 1)

\* "getting all available metric names": the loop reads the read-group
\* records of every document
AllMetricNames(data_by_rg_by_sample) ==
  UNION {UNION {DOMAIN data_by_rg_by_sample[i][2][j][2] :
                  j \in 1..Len(data_by_rg_by_sample[i][2])} :
           i \in 1..Len(data_by_rg_by_sample)}

\* the loop's targets are sn and data_by_rg: when the loop ends the local
\* name data_by_rg is bound to the last document's read groups
LoopTarget(data_by_rg, data_by_rg_by_sample) ==
  IF Len(data_by_rg_by_sample) = 0 THEN data_by_rg
  ELSE data_by_rg_by_sample[Len(data_by_rg_by_sample)][2]

DupComponents == <<M_UniqueMapped, M_DupMarked, M_Unmapped>>
PairComponents == <<M_Discordant, M_ProperlyPaired, M_Singleton, M_Unmapped>>

RECURSIVE SumOf(_, _, _)
SumOf(data, comps, i) ==
  IF i = 1 THEN data[comps[1]]
  ELSE PyAdd(SumOf(data, comps, i - 1), data[comps[i]])

\* the exception reading and adding the components and the total raises
ChartError(data, comps) ==
  LET need == comps \o <<M_TotalReadsInRG>>
      missing == {i \in 1..Len(need) : need[i] \notin DOMAIN data}
      strs == {i \in 1..Len(comps) : ~IsNum(data[comps[i]])}
  IN IF missing # {}
     THEN "KeyError: " \o need[CHOOSE i \in missing : \A j \in missing : i <= j]
     ELSE IF strs # {} THEN "TypeError" ELSE ""

\* sum(components) != data['Total reads in RG']
Mismatch(data, comps) ==
  ~PyEq(SumOf(data, comps, Len(comps)), data[M_TotalReadsInRG])

RECURSIVE ChartFrom(_, _, _, _, _)
\* the loop of a chart projection; st = [err, chart_data, log]
ChartFrom(st, data_by_sample, comps, warning, i) ==
  IF i > Len(data_by_sample) \/ st.err # "" THEN st
  ELSE LET sample_id == data_by_sample[i][1]
           data == data_by_sample[i][2]
           err == ChartError(data, comps)
       IN ChartFrom(
            IF err # "" THEN [st EXCEPT !.err = err]
            ELSE IF Mismatch(data, comps)
            THEN [st EXCEPT !.log = Append(@, <<"warning", warning \o sample_id>>)]
            ELSE [st EXCEPT !.chart_data = Put(@, sample_id, data)],
            data_by_sample, comps, warning, i + 1)

DupWarning ==
  "sum of unique/duplicate/unmapped reads not matching total, "
  \o "skipping mapping/duplicates percentages plot for: "

PairWarning ==
  "sum of unpaired/discordant/proppaired/unmapped reads not matching total, "
  \o "skipping mapping/paired percentages plot for: "

map_dup_read_chart(data_by_sample, log0) ==
  ChartFrom([err |-> "", chart_data |-> <<>>, log |-> log0],
            data_by_sample, DupComponents, DupWarning, 1)

\* faulty variant of the pairing projection: it adds up the duplication
\* components
map_pair_read_chart_dup(data_by_sample, log0) ==
  ChartFrom([err |-> "", chart_data |-> <<>>, log |-> log0],
            data_by_sample, DupComponents, PairWarning, 1)

map_pair_read_chart(data_by_sample, log0) ==
  ChartFrom([err |-> "", chart_data |-> <<>>, log |-> log0],
            data_by_sample, PairComponents, PairWarning, 1)

----------------------------------------------------------------------------
(* the run of DragenMappingMetics.parse_mapping_metrics *)

VARIABLES
  pc,                           \* the handler's position
  files,                        \* indices of the documents read so far, in order
  sample_names_ignore,          \* config.sample_names_ignore
  data_by_rg_by_sample,         \* s_name -> read group -> record
  data_by_phenotype_by_sample,  \* s_name -> phenotype -> record
  data_by_sample,               \* flattened sample name -> record
  report_header_info,           \* config.report_header_info
  data_by_rg,                   \* the local name data_by_rg
  all_metric_names,
  headers,                      \* stats_headers of make_mapping_stats_headers
  beeswarm_keys,                \* beeswarm_keys of make_mapping_stats_headers
  general_stats,                \* rows handed to general_stats_addcols
  dup_chart,                    \* chart_data of __map_dup_read_chart
  pair_chart,                   \* chart_data of __map_pair_read_chart
  beeswarm_data,                \* dataset handed to beeswarm.plot
  sections,                     \* names given to add_section, in order
  data_sources,                 \* s_names given to add_data_source
  log,                          \* <<level, message>> records, in order
  error                         \* the exception that ended the run, or ""

vars == <<pc, files, sample_names_ignore, data_by_rg_by_sample,
          data_by_phenotype_by_sample, data_by_sample, report_header_info,
          data_by_rg, all_metric_names, general_stats, dup_chart, pair_chart,
          beeswarm_data, sections, data_sources, log, error, headers,
          beeswarm_keys>>

Init ==
  /\ pc = "files"
  /\ files = <<>>
  /\ sample_names_ignore \in IgnoreChoices
  /\ data_by_rg_by_sample = <<>>
  /\ data_by_phenotype_by_sample = <<>>
  /\ data_by_sample = <<>>
  /\ report_header_info = <<>>
  /\ data_by_rg = <<>>
  /\ all_metric_names = {}
  /\ headers = <<>>
  /\ beeswarm_keys = <<>>
  /\ general_stats = <<>>
  /\ dup_chart = <<>>
  /\ pair_chart = <<>>
  /\ beeswarm_data = <<>>
  /\ sections = <<>>
  /\ data_sources = <<>>
  /\ log = <<>>
  /\ error = ""

\* the debug lines of the loop over data_by_readgroup.items() (lines 29-31)
DuplicateRGLog(s_name, rgs, by_sample) ==
  LET Dup(rg) == \E i \in 1..Len(by_sample) : Has(by_sample[i][2], rg)
      Lines[j \in 0..Len(rgs)] ==
        IF j = 0 THEN <<>>
        ELSE IF Dup(rgs[j][1])
             THEN Append(Lines[j - 1],
                         <<"debug", "Duplicate read group name " \o rgs[j][1]
                                    \o " found for output prefix " \o s_name
                                    \o "! Overwriting">>)
             ELSE Lines[j - 1]
  IN Lines[Len(rgs)]

\* faulty variant of the pass: a document whose name is recorded already does
\* not replace the recorded one
ParseFileKeepingFirst(i, r) ==
  /\ pc = "files"
  /\ Len(files) < MaxDocs
  /\ files' = Append(files, i)
  /\ IF r.err # ""
     THEN /\ pc' = "raised"
          /\ error' = r.err
          /\ UNCHANGED <<data_by_rg_by_sample, data_by_phenotype_by_sample,
                         data_sources, log>>
     ELSE /\ pc' = "files"
          /\ error' = error
          /\ IF Has(data_by_rg_by_sample, r.s_name)
             THEN /\ data_sources' = Append(data_sources, r.s_name)
                  /\ log' = Append(log, <<"debug",
                              "Duplicate Dragen output prefix found! Overwriting: "
                              \o r.s_name>>)
                  /\ UNCHANGED <<data_by_rg_by_sample, data_by_phenotype_by_sample>>
             ELSE /\ data_sources' = data_sources
                  /\ log' = log \o DuplicateRGLog(r.s_name, r.data_by_readgroup,
                                                  data_by_rg_by_sample)
                  /\ data_by_phenotype_by_sample' =
                       Put(data_by_phenotype_by_sample, r.s_name, r.data_by_phenotype)
                  /\ data_by_rg_by_sample' =
                       Put(data_by_rg_by_sample, r.s_name, r.data_by_readgroup)
  /\ UNCHANGED <<sample_names_ignore, data_by_sample, report_header_info,
                 data_by_rg, all_metric_names, general_stats, dup_chart,
                 pair_chart, beeswarm_data, sections,
                 headers, beeswarm_keys>>

\* one pass of the loop over find_log_files (lines 21-32) on document i,
\* whose parse gave r
ParseFileWith(i, r) ==
  /\ pc = "files"
  /\ Len(files) < MaxDocs
  /\ files' = Append(files, i)
  /\ IF r.err # ""
     THEN /\ pc' = "raised"
          /\ error' = r.err
          /\ UNCHANGED <<data_by_rg_by_sample, data_by_phenotype_by_sample,
                         data_sources, log>>
     ELSE /\ pc' = "files"
          /\ error' = error
          /\ data_sources' = IF Has(data_by_rg_by_sample, r.s_name)
                             THEN Append(data_sources, r.s_name)
                             ELSE data_sources
          /\ log' = (IF Has(data_by_rg_by_sample, r.s_name)
                     THEN Append(log, <<"debug",
                            "Duplicate Dragen output prefix found! Overwriting: "
                            \o r.s_name>>)
                     ELSE log)
                    \o DuplicateRGLog(r.s_name, r.data_by_readgroup,
                                      data_by_rg_by_sample)
          /\ data_by_phenotype_by_sample' =
               Put(data_by_phenotype_by_sample, r.s_name, r.data_by_phenotype)
          /\ data_by_rg_by_sample' =
               Put(data_by_rg_by_sample, r.s_name, r.data_by_readgroup)
  /\ UNCHANGED <<sample_names_ignore, data_by_sample, report_header_info,
                 data_by_rg, all_metric_names, general_stats, dup_chart,
                 pair_chart, beeswarm_data, sections,
                 headers, beeswarm_keys>>

ParseFile(i) == ParseFileWith(i, Parsed[i])

\* faulty variant of the filter: only the per-phenotype mapping is filtered
FilterIgnoredPhenotypesOnly ==
  /\ pc = "files"
  /\ data_by_rg_by_sample' = data_by_rg_by_sample
  /\ data_by_phenotype_by_sample' =
       ignore_samples(data_by_phenotype_by_sample, sample_names_ignore)
  /\ IF Len(data_by_rg_by_sample) = 0 /\ Len(data_by_phenotype_by_sample') = 0
     THEN pc' = "done" /\ log' = log
     ELSE /\ pc' = "flatten"
          /\ log' = Append(log, <<"info", "Found mapping metrics for Dragen output prefixes">>)
  /\ UNCHANGED <<files, sample_names_ignore, data_by_sample,
                 report_header_info, data_by_rg, all_metric_names,
                 general_stats, dup_chart, pair_chart, beeswarm_data,
                 sections, data_sources, error,
                 headers, beeswarm_keys>>

\* faulty variant of the filter: the run goes on when nothing is left
FilterIgnoredWithoutReturn ==
  /\ pc = "files"
  /\ data_by_rg_by_sample' = ignore_samples(data_by_rg_by_sample, sample_names_ignore)
  /\ data_by_phenotype_by_sample' =
       ignore_samples(data_by_phenotype_by_sample, sample_names_ignore)
  /\ pc' = "flatten"
  /\ log' = Append(log, <<"info", "Found mapping metrics for Dragen output prefixes">>)
  /\ UNCHANGED <<files, sample_names_ignore, data_by_sample,
                 report_header_info, data_by_rg, all_metric_names,
                 general_stats, dup_chart, pair_chart, beeswarm_data,
                 sections, data_sources, error,
                 headers, beeswarm_keys>>

\* find_log_files is exhausted; lines 34-39
FilterIgnored ==
  LET rgs == ignore_samples(data_by_rg_by_sample, sample_names_ignore)
      phs == ignore_samples(data_by_phenotype_by_sample, sample_names_ignore)
  IN /\ pc = "files"
     /\ data_by_rg_by_sample' = rgs
     /\ data_by_phenotype_by_sample' = phs
     /\ IF Len(rgs) = 0 /\ Len(phs) = 0
        THEN pc' = "done" /\ log' = log
        ELSE /\ pc' = "flatten"
             /\ log' = Append(log, <<"info", "Found mapping metrics for Dragen output prefixes">>)
     /\ UNCHANGED <<files, sample_names_ignore, data_by_sample,
                    report_header_info, data_by_rg, all_metric_names,
                    general_stats, dup_chart, pair_chart, beeswarm_data,
                    sections, data_sources, error,
                 headers, beeswarm_keys>>

\* lines 41-48
Flatten ==
  /\ pc = "flatten"
  /\ data_by_sample' = Flattened(data_by_phenotype_by_sample)
  /\ pc' = "promote"
  /\ UNCHANGED <<files, sample_names_ignore, data_by_rg_by_sample,
                 data_by_phenotype_by_sample, report_header_info, data_by_rg,
                 all_metric_names, general_stats, dup_chart, pair_chart,
                 beeswarm_data, sections, data_sources, log, error,
                 headers, beeswarm_keys>>

\* line 52, r the promoter's outcome.  The records deleted from are those of
\* data_by_phenotype_by_sample too, which is not read again.
PromoteWith(r) ==
  /\ pc = "promote"
  /\ data_by_sample' = r.data_by_sample
  /\ report_header_info' = r.report_header_info
  /\ error' = r.err
  /\ pc' = IF r.err # "" THEN "raised" ELSE "merge"
  /\ UNCHANGED <<files, sample_names_ignore, data_by_rg_by_sample,
                 data_by_phenotype_by_sample, data_by_rg, all_metric_names,
                 general_stats, dup_chart, pair_chart, beeswarm_data,
                 sections, data_sources, log,
                 headers, beeswarm_keys>>

Promote == PromoteWith(maybe_add_general_metrics(data_by_sample, report_header_info))

\* lines 54-60
MergeReadGroups ==
  /\ pc = "merge"
  /\ data_by_rg' = MergedReadGroups(data_by_rg_by_sample)
  /\ pc' = "names"
  /\ UNCHANGED <<files, sample_names_ignore, data_by_rg_by_sample,
                 data_by_phenotype_by_sample, data_by_sample,
                 report_header_info, all_metric_names, general_stats,
                 dup_chart, pair_chart, beeswarm_data, sections, data_sources,
                 log, error,
                 headers, beeswarm_keys>>

\* lines 62-67
CollectMetricNames ==
  /\ pc = "names"
  /\ all_metric_names' = AllMetricNames(data_by_rg_by_sample)
  /\ data_by_rg' = LoopTarget(data_by_rg, data_by_rg_by_sample)
  /\ pc' = "table"
  /\ UNCHANGED <<files, sample_names_ignore, data_by_rg_by_sample,
                 data_by_phenotype_by_sample, data_by_sample,
                 report_header_info, general_stats, dup_chart, pair_chart,
                 beeswarm_data, sections, data_sources, log, error,
                 headers, beeswarm_keys>>

\* lines 70-72: the headers are made, r the builder's outcome, and the
\* samples are handed to general_stats_addcols with them
AddGeneralStatsWith(r) ==
  /\ pc = "table"
  /\ headers' = r.stats_headers
  /\ beeswarm_keys' = r.beeswarm_keys
  /\ general_stats' = data_by_sample
  /\ pc' = "dup_chart"
  /\ UNCHANGED <<files, sample_names_ignore, data_by_rg_by_sample,
                 data_by_phenotype_by_sample, data_by_sample,
                 report_header_info, data_by_rg, all_metric_names, dup_chart,
                 pair_chart, beeswarm_data, sections, data_sources, log, error>>

AddGeneralStats == AddGeneralStatsWith(make_mapping_stats_headers(all_metric_names))

\* line 74: __map_dup_read_chart(data_by_rg), r its outcome
DupChartWith(r) ==
  /\ pc = "dup_chart"
  /\ log' = r.log
  /\ error' = r.err
  /\ IF r.err # ""
     THEN pc' = "raised" /\ UNCHANGED <<dup_chart, sections>>
     ELSE /\ pc' = "pair_chart"
          /\ dup_chart' = r.chart_data
          /\ sections' = Append(sections, "Mapped and duplicated per RG")
  /\ UNCHANGED <<files, sample_names_ignore, data_by_rg_by_sample,
                 data_by_phenotype_by_sample, data_by_sample,
                 report_header_info, data_by_rg, all_metric_names,
                 general_stats, pair_chart, beeswarm_data, data_sources,
                 headers, beeswarm_keys>>

DupChart == DupChartWith(map_dup_read_chart(data_by_rg, log))

\* line 75: __map_pair_read_chart(data_by_rg), r its outcome
PairChartWith(r) ==
  /\ pc = "pair_chart"
  /\ log' = r.log
  /\ error' = r.err
  /\ IF r.err # ""
     THEN pc' = "raised" /\ UNCHANGED <<pair_chart, sections>>
     ELSE /\ pc' = "beeswarm"
          /\ pair_chart' = r.chart_data
          /\ sections' = Append(sections, "Mapped and paired per RG")
  /\ UNCHANGED <<files, sample_names_ignore, data_by_rg_by_sample,
                 data_by_phenotype_by_sample, data_by_sample,
                 report_header_info, data_by_rg, all_metric_names,
                 general_stats, dup_chart, beeswarm_data, data_sources,
                 headers, beeswarm_keys>>

PairChart == PairChartWith(map_pair_read_chart(data_by_rg, log))

\* lines 77-84
BeeswarmSection ==
  /\ pc = "beeswarm"
  /\ beeswarm_data' = data_by_rg
  /\ sections' = Append(sections, "Mapping metrics per RG")
  /\ pc' = "done"
  /\ UNCHANGED <<files, sample_names_ignore, data_by_rg_by_sample,
                 data_by_phenotype_by_sample, data_by_sample,
                 report_header_info, data_by_rg, all_metric_names,
                 general_stats, dup_chart, pair_chart, data_sources, log, error,
                 headers, beeswarm_keys>>

Next ==
  \/ \E i \in 1..Len(Documents) : ParseFile(i)
  \/ FilterIgnored
  \/ Flatten
  \/ Promote
  \/ MergeReadGroups
  \/ CollectMetricNames
  \/ AddGeneralStats
  \/ DupChart
  \/ PairChart
  \/ BeeswarmSection

Spec == Init /\ [][Next]_vars

----------------------------------------------------------------------------
(* properties *)

\* the run went past the exclusion filter and reported
Produced == pc = "done" /\ Len(sections) > 0

\* maybe_add_general_metrics returned
PromoterReturned ==
  \/ pc \in {"merge", "names", "table", "dup_chart", "pair_chart", "beeswarm"}
  \/ Produced

\* the name a colliding read group is to be stored under
Disambiguated(rg, sname) == rg \o " (" \o sname \o ")"

\* the retained (document, read group) pairs
RetainedRGs ==
  {<<i, j>> \in (1..Len(data_by_rg_by_sample)) \X (1..3) :
     j <= Len(data_by_rg_by_sample[i][2])}

\* the merged per-read-group mapping of the retained documents
Merged == MergedReadGroups(data_by_rg_by_sample)

\* C1: when the read groups have just been merged, every (document, read
\* group) record of every retained document is in the merged mapping under
\* its id or under "<id> (<document name>)", and no record was overwritten:
\* the mapping has as many keys as there are records.
C1_NoSilentOverwrite ==
  pc = "names" =>
    /\ Len(data_by_rg) = Cardinality(RetainedRGs)
    /\ \A p \in RetainedRGs :
         LET sname == data_by_rg_by_sample[p[1]][1]
             rg == data_by_rg_by_sample[p[1]][2][p[2]][1]
             d == data_by_rg_by_sample[p[1]][2][p[2]][2]
         IN \/ Has(data_by_rg, rg) /\ Get(data_by_rg, rg) = d
            \/ /\ Has(data_by_rg, Disambiguated(rg, sname))
               /\ Get(data_by_rg, Disambiguated(rg, sname)) = d

\* two documents that both hold RG1 were merged
C1_Collision ==
  /\ pc = "names"
  /\ Len(data_by_rg_by_sample) = 2
  /\ Has(data_by_rg_by_sample[1][2], "RG1")
  /\ Has(data_by_rg_by_sample[2][2], "RG1")
  /\ Has(data_by_rg, "RG1 (" \o data_by_rg_by_sample[2][1] \o ")")

\* C2: with more than one retained document, the mapping the duplication
\* projection, the pairing projection and the distribution dataset are given
\* holds a key for every read group of every retained document, under its id
\* or its disambiguated id.
C2_ConsumersReadMerged ==
  (/\ Len(data_by_rg_by_sample) > 1
   /\ pc \in {"dup_chart", "pair_chart", "beeswarm"} \/ Produced) =>
    \A p \in RetainedRGs :
      LET sname == data_by_rg_by_sample[p[1]][1]
          rg == data_by_rg_by_sample[p[1]][2][p[2]][1]
          given == IF Produced THEN beeswarm_data ELSE data_by_rg
      IN Has(given, rg) \/ Has(given, Disambiguated(rg, sname))

\* the record has the components and the total as numbers, and they add up
DupReconciles(d) ==
  /\ {M_UniqueMapped, M_DupMarked, M_Unmapped, M_TotalReadsInRG} \subseteq DOMAIN d
  /\ Hundredths(d[M_UniqueMapped]) + Hundredths(d[M_DupMarked])
       + Hundredths(d[M_Unmapped]) = Hundredths(d[M_TotalReadsInRG])

PairReconciles(d) ==
  /\ {M_Discordant, M_ProperlyPaired, M_Singleton, M_Unmapped, M_TotalReadsInRG}
       \subseteq DOMAIN d
  /\ Hundredths(d[M_Discordant]) + Hundredths(d[M_ProperlyPaired])
       + Hundredths(d[M_Singleton]) + Hundredths(d[M_Unmapped])
     = Hundredths(d[M_TotalReadsInRG])

\* C3: when the run has reported, an entity of the merged per-read-group
\* mapping is in the duplication view exactly when its three duplication
\* components add up to Total reads in RG, and in the pairing view exactly
\* when its four pairing components do.
C3_ReconciliationInvariant ==
  Produced =>
    \A k \in 1..Len(Merged) :
      /\ Has(dup_chart, Merged[k][1]) <=> DupReconciles(Merged[k][2])
      /\ Has(pair_chart, Merged[k][1]) <=> PairReconciles(Merged[k][2])

\* the samples that hold general metric g
Holders(by_sample, g) ==
  {i \in 1..Len(by_sample) : g \in DOMAIN by_sample[i][2]}

\* C4: once the promoter has returned, every general metric is absent from
\* all samples or present with at least two distinct values.
C4_PromotionInvariant ==
  PromoterReturned =>
    \A g \in GeneralIds :
      \/ Holders(data_by_sample, g) = {}
      \/ \E i, j \in Holders(data_by_sample, g) :
           ~PyEq(data_by_sample[i][2][g], data_by_sample[j][2][g])

\* the promoter returned having promoted one metric and left another, whose
\* values differ, in the samples
C4_PromotedAndKept ==
  /\ PromoterReturned
  /\ Len(report_header_info) > 0
  /\ Holders(data_by_sample, M_Ploidy) # {}
  /\ Holders(data_by_sample, M_BasesInRef) = {}

\* the facts the promoter appended for the metric titled title
NewFacts(title) ==
  {k \in (Len(report_header_info) + 1)..Len(report_header_info') :
     report_header_info'[k].title = title}

\* C5, for one run of the promoter on general metric number n
C5_Metric(n) ==
  LET g == GENERAL_METRICS[n][1]
      holders == Holders(data_by_sample, g)
      single == /\ holders # {}
                /\ \A i, j \in holders :
                     PyEq(data_by_sample[i][2][g], data_by_sample[j][2][g])
      available == \A i \in holders : ~PyEq(data_by_sample[i][2][g], NA)
      facts == NewFacts(GENERAL_METRICS[n][2])
      removed == Holders(data_by_sample', g) = {}
  IN /\ Cardinality(facts) <= 1
     /\ (Cardinality(facts) = 1 /\ removed) <=> (single /\ available)
     /\ \A k \in facts :
          /\ report_header_info'[k].fmt = GENERAL_METRICS[n][3]
          /\ \E i \in holders : report_header_info'[k].arg = data_by_sample[i][2][g]
     /\ (holders # {} /\ ~single) =>
          /\ facts = {}
          /\ Len(data_by_sample') = Len(data_by_sample)
          /\ \A i \in holders :
               /\ g \in DOMAIN data_by_sample'[i][2]
               /\ data_by_sample'[i][2][g] = data_by_sample[i][2][g]

\* the title's place in GENERAL_METRICS
TitleRank(title) ==
  CHOOSE n \in 1..Len(GENERAL_METRICS) : GENERAL_METRICS[n][2] = title

\* C5: the promoter appends exactly one fact for a general metric and removes
\* the metric from the samples exactly when the samples that hold it carry
\* one distinct value which is not the unavailable marker; a metric whose
\* values differ gets no fact and keeps its value in every sample that had
\* it; the facts are appended in GENERAL_METRICS order.
C5_PromoterFacts ==
  [][pc = "promote" =>
       /\ \A n \in 1..Len(GENERAL_METRICS) : C5_Metric(n)
       /\ \A k \in (Len(report_header_info) + 1)..(Len(report_header_info') - 1) :
            TitleRank(report_header_info'[k].title)
              < TitleRank(report_header_info'[k + 1].title)]_vars

\* the handler returned or raised
Ended == pc \in {"done", "raised"}

AllSections ==
  <<"Mapped and duplicated per RG", "Mapped and paired per RG",
    "Mapping metrics per RG">>

\* what the scenario expects of a run over one document named S1
ScenarioOutcome ==
  /\ pc = "done"
  /\ error = ""
  /\ Has(data_by_sample, "S1")
  /\ M_TotalInputReads \in DOMAIN Get(data_by_sample, "S1")
  /\ Get(data_by_sample, "S1")[M_TotalInputReads] = IntV(1000)
  /\ Has(dup_chart, "RG1")
  /\ ~PairReconciles(Get(Get(data_by_rg_by_sample, "S1"), "RG1"))
       => ~Has(pair_chart, "RG1")

\* C6 as stated: the run over the one document S1.mapping_metrics.csv whose
\* only rows are the SUMMARY row Total input reads = 1000 and the RG1 rows
\* Total reads in RG = 1000 and three duplication components that add up to
\* 1000 completes with sample S1 holding Total input reads = 1000, RG1 in the
\* duplication view, and RG1 out of the pairing view unless its pairing
\* components add up.
C6_MinimalScenario ==
  (/\ Len(files) = 1
   /\ Documents[files[1]] = [fn |-> "S1.mapping_metrics.csv", f |-> MinimalRows]
   /\ sample_names_ignore = {}
   /\ Ended) => ScenarioOutcome

\* document i is named S1.mapping_metrics.csv and parses: every record holds
\* the metrics the fixups read.  It has one phenotype, tumor, with Total
\* input reads = 1000, and one read group, RG1, of 1000 reads whose
\* duplication components add up to 1000 and which holds the four pairing
\* components.
CompleteScenario(i) ==
  /\ Documents[i].fn = "S1.mapping_metrics.csv"
  /\ Parsed[i].err = ""
  /\ KeySet(Parsed[i].data_by_phenotype) = {"tumor"}
  /\ Get(Parsed[i].data_by_phenotype, "tumor")[M_TotalInputReads] = IntV(1000)
  /\ KeySet(Parsed[i].data_by_readgroup) = {"RG1"}
  /\ Get(Parsed[i].data_by_readgroup, "RG1")[M_TotalReadsInRG] = IntV(1000)
  /\ DupReconciles(Get(Parsed[i].data_by_readgroup, "RG1"))
  /\ {M_Discordant, M_ProperlyPaired, M_Singleton}
       \subseteq DOMAIN Get(Parsed[i].data_by_readgroup, "RG1")

\* C6: the run over one such document, S1 not being excluded, completes with
\* sample S1 holding Total input reads = 1000, RG1 in the duplication view,
\* and RG1 out of the pairing view when its four pairing components do not
\* add up to 1000; the three sections are reported.
C6_CompleteScenario ==
  (/\ Len(files) = 1
   /\ CompleteScenario(files[1])
   /\ "S1" \notin sample_names_ignore
   /\ Ended) =>
    /\ ScenarioOutcome
    /\ sections = AllSections

\* such a run ended with RG1 in the duplication view only
C6_ScenarioRan ==
  /\ Len(files) = 1
  /\ CompleteScenario(files[1])
  /\ sample_names_ignore = {}
  /\ pc = "done"
  /\ Has(dup_chart, "RG1")
  /\ ~Has(pair_chart, "RG1")

\* the documents read so far whose name is not excluded
KeptDocs ==
  {k \in 1..Len(files) :
     /\ Parsed[files[k]].err = ""
     /\ Parsed[files[k]].s_name \notin sample_names_ignore}

\* the parse of the last document read raised
ParseRaised == Len(files) > 0 /\ Parsed[files[Len(files)]].err # ""

\* the exclusion filter has run
Filtered == pc # "files" /\ ~ParseRaised

\* record d holds nothing but values of record src
FromRecord(d, src) ==
  /\ DOMAIN d \subseteq DOMAIN src
  /\ \A m \in DOMAIN d : d[m] = src[m]

\* entry e of a per-sample mapping comes from a phenotype of a kept document
FromKeptPhenotype(e) ==
  \E k \in KeptDocs :
    \E j \in 1..Len(Parsed[files[k]].data_by_phenotype) :
      /\ e[1] \in {Parsed[files[k]].s_name, Parsed[files[k]].s_name \o " normal"}
      /\ FromRecord(e[2], Parsed[files[k]].data_by_phenotype[j][2])

\* entry e of a per-read-group mapping comes from a read group of a kept
\* document
FromKeptReadGroup(e) ==
  \E k \in KeptDocs :
    \E j \in 1..Len(Parsed[files[k]].data_by_readgroup) :
      /\ e[1] \in {Parsed[files[k]].data_by_readgroup[j][1],
                   Disambiguated(Parsed[files[k]].data_by_readgroup[j][1],
                                 Parsed[files[k]].s_name)}
      /\ e[2] = Parsed[files[k]].data_by_readgroup[j][2]

\* every entry of the mapping satisfies P
AllEntries(d, P(_)) == \A n \in 1..Len(d) : P(d[n])

\* the metric names of the read groups of the kept documents
KeptMetricNames ==
  UNION {UNION {DOMAIN Parsed[files[k]].data_by_readgroup[j][2] :
                  j \in 1..Len(Parsed[files[k]].data_by_readgroup)} :
           k \in KeptDocs}

\* C7 as stated: no key of the merged per-read-group mapping or of the merged
\* per-sample mapping, nor of the views computed from them, is a name of the
\* exclusion set.
C7_NoExcludedEntity ==
  Filtered =>
    /\ KeySet(data_by_rg) \cap sample_names_ignore = {}
    /\ KeySet(data_by_sample) \cap sample_names_ignore = {}

\* C7: the filter drops documents by their logical name.  Once it has run,
\* no excluded name is a key of the per-document mappings, and every entry
\* of the per-sample mapping, of the general statistics, of the merged
\* per-read-group mapping, of the two views and of the distribution dataset,
\* every metric name and every promoted fact comes from a document whose
\* name is not excluded.
C7_DocumentFiltering ==
  Filtered =>
    /\ KeySet(data_by_rg_by_sample) \cap sample_names_ignore = {}
    /\ KeySet(data_by_phenotype_by_sample) \cap sample_names_ignore = {}
    /\ AllEntries(data_by_sample, FromKeptPhenotype)
    /\ AllEntries(general_stats, FromKeptPhenotype)
    /\ AllEntries(data_by_rg, FromKeptReadGroup)
    /\ AllEntries(dup_chart, FromKeptReadGroup)
    /\ AllEntries(pair_chart, FromKeptReadGroup)
    /\ AllEntries(beeswarm_data, FromKeptReadGroup)
    /\ all_metric_names \subseteq KeptMetricNames
    /\ \A n \in 1..Len(report_header_info) :
         \E k \in KeptDocs :
           \E j \in 1..Len(Parsed[files[k]].data_by_phenotype) :
             \E g \in GeneralIds :
               /\ g \in DOMAIN Parsed[files[k]].data_by_phenotype[j][2]
               /\ report_header_info[n].arg
                    = Parsed[files[k]].data_by_phenotype[j][2][g]

\* a run that read an excluded document and a kept one reported
C7_ExcludedDocumentRead ==
  /\ Produced
  /\ KeptDocs # {}
  /\ \E k \in 1..Len(files) : Parsed[files[k]].s_name \in sample_names_ignore

\* the retained (document, phenotype) pairs
RetainedPhenotypes ==
  {<<i, j>> \in (1..Len(data_by_phenotype_by_sample)) \X (1..3) :
     j <= Len(data_by_phenotype_by_sample[i][2])}

\* the sample name the rule gives phenotype p[2] of document p[1]
RuleName(p) ==
  IF data_by_phenotype_by_sample[p[1]][2][p[2]][1] = "normal"
  THEN data_by_phenotype_by_sample[p[1]][1] \o " normal"
  ELSE data_by_phenotype_by_sample[p[1]][1]

LastOfName(k) ==
  \A k2 \in (k + 1)..Len(files) :
    Parsed[files[k2]].s_name # Parsed[files[k]].s_name

\* the collision of name s_name is in the log
CollisionLogged(s_name) ==
  \E n \in 1..Len(log) :
    log[n] = <<"debug", "Duplicate Dragen output prefix found! Overwriting: "
                        \o s_name>>

\* the exclusion filter announced the documents it kept
Announced == \E n \in 1..Len(log) : log[n][1] = "info"

\* C9: while the documents are being read, the per-read-group and the
\* per-phenotype data recorded for a name are exactly those of the last
\* document read under that name, whatever an earlier document of that name
\* held; a name read twice has its collision logged; and the loop over the
\* documents ends by an exception only when the parse of a document raises.
C9_LastWriteWins ==
  /\ pc = "files" =>
       /\ KeySet(data_by_rg_by_sample)
            = {Parsed[files[k]].s_name : k \in 1..Len(files)}
       /\ KeySet(data_by_phenotype_by_sample) = KeySet(data_by_rg_by_sample)
       /\ \A k \in 1..Len(files) :
            LastOfName(k) =>
              /\ Get(data_by_rg_by_sample, Parsed[files[k]].s_name)
                   = Parsed[files[k]].data_by_readgroup
              /\ Get(data_by_phenotype_by_sample, Parsed[files[k]].s_name)
                   = Parsed[files[k]].data_by_phenotype
       /\ \A k \in 1..Len(files) :
            ~LastOfName(k) => CollisionLogged(Parsed[files[k]].s_name)
  /\ (pc = "raised" /\ ~Announced) =>
       /\ ParseRaised
       /\ error = Parsed[files[Len(files)]].err

\* two documents of one name and different data were read
C9_NameReadTwice ==
  /\ pc = "files"
  /\ Len(files) = 2
  /\ Parsed[files[1]].s_name = Parsed[files[2]].s_name
  /\ Parsed[files[1]].data_by_readgroup # Parsed[files[2]].data_by_readgroup
  /\ Parsed[files[1]].data_by_phenotype # Parsed[files[2]].data_by_phenotype
  /\ CollisionLogged(Parsed[files[2]].s_name)

\* the projection's warning names the entity
Warned(warning, key) ==
  \E n \in 1..Len(log) : log[n] = <<"warning", warning \o key>>

\* C10: when the run has reported, every entity of the merged per-read-group
\* mapping is, in each projection on its own, either in the view with its
\* record unmodified or named by that projection's warning, and the three
\* sections were reported.
C10_MismatchLocal ==
  Produced =>
    /\ \A k \in 1..Len(Merged) :
         /\ \/ /\ Has(dup_chart, Merged[k][1])
               /\ Get(dup_chart, Merged[k][1]) = Merged[k][2]
            \/ Warned(DupWarning, Merged[k][1])
         /\ \/ /\ Has(pair_chart, Merged[k][1])
               /\ Get(pair_chart, Merged[k][1]) = Merged[k][2]
            \/ Warned(PairWarning, Merged[k][1])
    /\ sections = AllSections

\* the run has reported nothing: no fact, no table column, no section
NothingReported ==
  /\ report_header_info = <<>>
  /\ general_stats = <<>>
  /\ sections = <<>>
  /\ dup_chart = <<>>
  /\ pair_chart = <<>>
  /\ beeswarm_data = <<>>

\* the filter left no document in either mapping
NothingLeft ==
  Len(data_by_rg_by_sample) = 0 /\ Len(data_by_phenotype_by_sample) = 0

\* C11: once the exclusion filter has run, if both per-document mappings are
\* empty the run has returned and has reported nothing; if one of them is
\* not empty the run went on: it announced the documents and is past, or
\* at, the flattening.
C11_NoDataNoOp ==
  Filtered =>
    /\ NothingLeft => (pc = "done" /\ NothingReported /\ ~Announced)
    /\ ~NothingLeft => (Announced /\ (pc = "done" => Produced))

\* every document read was excluded, and the run returned
C11_AllExcluded ==
  /\ pc = "done"
  /\ Len(files) > 0
  /\ NothingLeft
  /\ NothingReported

\* the metrics the documented fixups may turn from unavailable to a number
FixupMetrics == {M_DupMarked, M_DupMateRemoved, M_UniqueReads}

\* the record the handler holds for the entity of a row with these fields,
\* read from the document named s_name
RecordOfRow(s_name, fields) ==
  IF Split(fields[1], "/")[2] = "ALIGNING SUMMARY"
  THEN Get(Get(data_by_phenotype_by_sample, s_name),
           Lower(Split(Split(fields[1], "/")[1], " ")[1]))
  ELSE Get(Get(data_by_rg_by_sample, s_name), fields[2])

\* the value stored for a row agrees with the text of its VALUE field
RowCoerced(rec, metric, text) ==
  /\ metric \in DOMAIN rec
  /\ AllDigits(text) => rec[metric] = [k |-> "int", n |-> DigitsVal(text), s |-> ""]
  /\ (~AllDigits(text) /\ text # "NA") =>
       /\ rec[metric].k = "float"
       /\ rec[metric].n = FloatOf(text)
  /\ (text = "NA" /\ metric \notin FixupMetrics) =>
       rec[metric] = [k |-> "str", n |-> 0, s |-> "NA"]
  /\ (text = "NA" /\ rec[metric].k # "str") => metric \in FixupMetrics

\* C12: in the records of a document that has been parsed, the value of
\* every row's metric is the integer its VALUE text spells, a float when the
\* text is numeric and not an integer, and the unavailable marker when the
\* text is NA, unless the metric is one of the three fixup metrics: only
\* those are numeric where the source said NA.
C12_Coercion ==
  pc = "files" =>
    \A k \in 1..Len(files) :
      LastOfName(k) =>
        \A n \in 1..Len(Documents[files[k]].f) :
          RowCoerced(RecordOfRow(Parsed[files[k]].s_name,
                                 Split(Documents[files[k]].f[n], ",")),
                     Split(Documents[files[k]].f[n], ",")[3],
                     Split(Documents[files[k]].f[n], ",")[4])

\* a parsed document holds an unavailable general metric, a float, and a
\* read group whose duplicate count was unavailable in the source
C12_MixedValues ==
  /\ pc = "files"
  /\ Has(data_by_rg_by_sample, "S1")
  /\ Has(Get(data_by_rg_by_sample, "S1"), "RG3")
  /\ Get(Get(data_by_rg_by_sample, "S1"), "RG3")[M_DupMarked].k = "int"
  /\ Get(Get(data_by_phenotype_by_sample, "S1"), "normal")[M_BasesInTarget].s = "NA"
  /\ Get(Get(data_by_phenotype_by_sample, "S1"), "normal")[M_MappingRate].k = "float"

\* some samples hold general metric g, all with one value, and some sample
\* does not hold it
PartlyHeld(g) ==
  /\ Holders(data_by_sample, g) # {}
  /\ Holders(data_by_sample, g) # 1..Len(data_by_sample)
  /\ \A i, j \in Holders(data_by_sample, g) :
       PyEq(data_by_sample[i][2][g], data_by_sample[j][2][g])

\* C14: when the promoter runs on samples of which some hold a general
\* metric with one value and another does not hold it, the promoter returns
\* without error, the metric is gone from every sample that held it, and
\* the samples are the same samples in the same order.
C14_TolerantPromotion ==
  [][(pc = "promote" /\ \E g \in GeneralIds : PartlyHeld(g)) =>
       /\ pc' = "merge"
       /\ error' = ""
       /\ Keys(data_by_sample') = Keys(data_by_sample)
       /\ \A g \in GeneralIds :
            PartlyHeld(g) => Holders(data_by_sample', g) = {}]_vars

\* C15: when the samples have just been flattened, the per-sample mapping
\* has one entry for every (document, phenotype) pair of the retained
\* documents, and the record of every pair is the record of an entry: no
\* record was overwritten by another.
C15_DistinctSampleNames ==
  pc = "promote" =>
    /\ Len(data_by_sample) = Cardinality(RetainedPhenotypes)
    /\ \A p \in RetainedPhenotypes :
         \E n \in 1..Len(data_by_sample) :
           data_by_sample[n][2] = data_by_phenotype_by_sample[p[1]][2][p[2]][2]

\* the metrics the post-parse fixups and derived percentages read
BaseMetrics ==
  {M_DupMarked, M_DupMateRemoved, M_UniqueReads, M_MappedReads,
   M_TotalAlignments, M_SecondaryAlignments, M_TotalBases, M_Q30Excl,
   M_MappedBasesR1, M_MappedBasesR2}

\* the records of document i as its rows give them, before the fixups
RowsOf(i) ==
  ParseLines([rg |-> <<>>, ph |-> <<>>, err |-> ""], Documents[i].f, 1,
             Len(Documents[i].f))

\* the read groups, then the phenotypes, of document i
EntitiesOf(i) == RowsOf(i).rg \o RowsOf(i).ph

\* the (entity number, metric) pairs of document i where the entity's record
\* lacks a base metric
Lacking(i) ==
  {p \in (1..Len(EntitiesOf(i))) \X BaseMetrics :
     p[2] \notin DOMAIN EntitiesOf(i)[p[1]][2]}

\* the text occurs in the message
Mentions(message, text) == Occurrences(message, text, 1) # {}

\* C17: a document of which some record lacks a base metric ends the run
\* when it is parsed, with an error that names a missing metric and the
\* entity whose record lacks it.
C17_MissingMetricReported ==
  \A k \in 1..Len(files) :
    Lacking(files[k]) # {} =>
      /\ k = Len(files)
      /\ pc = "raised"
      /\ \E p \in Lacking(files[k]) :
           /\ Mentions(error, p[2])
           /\ Mentions(error, EntitiesOf(files[k])[p[1]][1])

\* the percentages the fixups derive
DerivedKeys ==
  {M_SecondaryAlignments \o " pct", M_Q30Excl \o " pct",
   M_MappedBasesR1 \o " pct", M_MappedBasesR2 \o " pct"}

Unavailable == [k |-> "str", n |-> 0, s |-> "NA"]

\* rec is the record the fixups make of the record raw the rows give
FixedUp(raw, rec) ==
  /\ DOMAIN raw \subseteq DOMAIN rec
  /\ \A m \in {M_DupMarked, M_DupMateRemoved} \cap DOMAIN raw :
       rec[m] = IF raw[m] = Unavailable
                THEN [k |-> "int", n |-> 0, s |-> ""] ELSE raw[m]
  /\ M_UniqueReads \in DOMAIN raw =>
       rec[M_UniqueReads] = IF raw[M_UniqueReads] = Unavailable
                            THEN raw[M_MappedReads] ELSE raw[M_UniqueReads]
  /\ \A m \in DOMAIN raw \ (FixupMetrics \cup DerivedKeys) : rec[m] = raw[m]

\* every record of held is the fixed-up record of the same entity of raw
AllFixedUp(raw, held) ==
  \A n \in 1..Len(raw) : FixedUp(raw[n][2], Get(held, raw[n][1]))

\* the records held under s_name are the fixed-up records the rows give
DocumentFixedUp(rows, s_name) ==
  /\ AllFixedUp(rows.rg, Get(data_by_rg_by_sample, s_name))
  /\ AllFixedUp(rows.ph, Get(data_by_phenotype_by_sample, s_name))

\* C18: in every record of a document that has been parsed, read group or
\* phenotype, the two duplicate counts are 0 where the source said NA and
\* the source value otherwise, the unique-read count is the record's Mapped
\* reads where the source said NA and the source value otherwise, and every
\* other value the rows gave is unaltered.
C18_Fixups ==
  pc = "files" =>
    \A k \in 1..Len(files) :
      LastOfName(k) =>
        DocumentFixedUp(RowsOf(files[k]), Parsed[files[k]].s_name)

\* a parsed read group had all three counts unavailable in the source
C18_NoDeduplication ==
  /\ pc = "files"
  /\ Len(files) = 1
  /\ \E n \in 1..Len(RowsOf(files[1]).rg) :
       /\ RowsOf(files[1]).rg[n][2][M_DupMarked] = Unavailable
       /\ RowsOf(files[1]).rg[n][2][M_UniqueReads] = Unavailable
       /\ Get(data_by_rg_by_sample, Parsed[files[1]].s_name)[n][2][M_UniqueReads]
            = [k |-> "int", n |-> 950, s |-> ""]

\* make_mapping_stats_headers returned and its outcome was stored
HeadersMade == Len(headers) > 0

CatalogIds == [i \in 1..Len(MAPPING_METRICS) |-> MAPPING_METRICS[i][1]]

IsCatalogId(key) == \E i \in 1..Len(MAPPING_METRICS) : MAPPING_METRICS[i][1] = key

BeeswarmFlag(e) == e[5]

\* the place of key in the ordered mapping d
PlaceOf(d, key) == CHOOSE i \in 1..Len(d) : d[i][1] = key

\* <id> pct, where present, is next to <id>
PlacedWithEntry(d, id) ==
  Has(d, id \o " pct") =>
    /\ Has(d, id)
    /\ PlaceOf(d, id) - PlaceOf(d, id \o " pct") \in {-1, 1}

TableRecords == {general_stats[i][2] : i \in 1..Len(general_stats)}

\* C16: the name set the builder is given holds the metric identifiers of the
\* per-sample records as well as those of the read-group records: every
\* <id> pct key of a record of the per-sample table is in all_metric_names
\* and has a column descriptor in the headers of that table.
C16_NamesCoverSampleRecords ==
  HeadersMade =>
    \A rec \in TableRecords : \A i \in 1..Len(MAPPING_METRICS) :
      (MAPPING_METRICS[i][1] \o " pct") \in DOMAIN rec =>
        /\ (MAPPING_METRICS[i][1] \o " pct") \in all_metric_names
        /\ Has(headers, MAPPING_METRICS[i][1] \o " pct")

\* the column under key exists and is shown unless the user reveals it
Visible(d, key) == Has(d, key) /\ ~Get(d, key).hidden

\* the visibility rule for the catalog entry with id and show-mode showing
VisibilityRule(id, showing) ==
  /\ Has(headers, id)
  /\ Visible(headers, id) <=> showing = "#"
  /\ Has(headers, id \o " pct") <=> (id \o " pct") \in all_metric_names
  /\ Visible(headers, id \o " pct")
       <=> (showing = "%" /\ (id \o " pct") \in all_metric_names)
  /\ ~(Visible(headers, id) /\ Visible(headers, id \o " pct"))
  /\ (showing = None \/ (showing = "%" /\ (id \o " pct") \notin all_metric_names))
       => ~Visible(headers, id) /\ ~Visible(headers, id \o " pct")

=============================================================================
